---- MODULE Spec2Model ----
(***************************************************************************)
(* MRC20 fungible token ledger (contracts/erc20-token/src/lib.rs).         *)
(*                                                                         *)
(* The wide integer is modelled byte by byte as the code computes it, on   *)
(* a reduced byte count (NBytes for 32) and a reduced byte range (Base for *)
(* 256).  The key-value store is a function from key strings to stored     *)
(* blobs; its domain is the set of keys for which storage::has is true.    *)
(* One action stands for one call of an entry point, run to completion:    *)
(* the handler is an operator that threads the execution through its       *)
(* reads, checks and writes in source order and ends in a return or in a   *)
(* panic; the hosting environment then commits the writes of a call that   *)
(* returned and discards the writes of a call that panicked.               *)
(***************************************************************************)
EXTENDS Integers, Sequences, FiniteSets, TLC

(***************************************************************************)
(* Bounds of the model.                                                    *)
(***************************************************************************)
\* bytes of a wide integer (32 in the program)
NBytes == 2
\* number of values of one byte (256 in the program)
Base == 2
\* number of committed calls a behaviour is followed for
MaxCalls == 3
\* the same, for a ledger that is neither unconstructed nor fresh (written
\* before its construction, or constructed twice)
MaxOtherCalls == 1
\* the same, on the ledger whose read-only entry points are called
MaxReadCalls == 2
\* the constructor's fallback supply (10^18 in the program), scaled to the
\* reduced width
DefaultSupplyScalar == 2

RECURSIVE Pow(_, _)
Pow(b, e) == IF e = 0 THEN 1 ELSE b * Pow(b, e - 1)

(***************************************************************************)
(* U256: little-endian byte array, index 1 = least significant byte.       *)
(***************************************************************************)
\* the byte arrays of the wide integers
U256Bytes == [1..NBytes -> 0..(Base - 1)]
ZERO == [i \in 1..NBytes |-> 0]
MAX == [i \in 1..NBytes |-> Base - 1]

from_le_bytes(bytes) == [i \in 1..NBytes |-> bytes[i]]
to_le_bytes(u) == u

\* zero-extends the scalar's little-endian bytes into the low bytes
from_u64(value) == [i \in 1..NBytes |-> (value \div Pow(Base, i - 1)) % Base]

\* Option<U256>
Some(u) == [some |-> TRUE, val |-> u]
None == [some |-> FALSE, val |-> ZERO]

RECURSIVE add_loop(_, _, _, _, _)
add_loop(a, b, i, carry, result) ==
    IF i > NBytes THEN [result |-> result, carry |-> carry]
    ELSE LET sum == a[i] + b[i] + carry
         IN  add_loop(a, b, i + 1, sum \div Base,
                      [result EXCEPT ![i] = sum % Base])

\* mutant: the carry out of the most significant byte is dropped
checked_add_wrapping(self, other) ==
    Some(add_loop(self, other, 1, 0, ZERO).result)

\* mutant: a sum equal to the maximum is taken for an overflow
checked_add_below_max(self, other) ==
    LET r == add_loop(self, other, 1, 0, ZERO)
    IN  IF r.carry # 0 \/ r.result = MAX THEN None ELSE Some(r.result)

checked_add(self, other) ==
    LET r == add_loop(self, other, 1, 0, ZERO)
    IN  IF r.carry # 0 THEN None ELSE Some(r.result)

\* Ord::cmp: from the most significant byte down, the first unequal byte decides
RECURSIVE cmp_loop(_, _, _)
cmp_loop(a, b, i) ==
    IF i < 1 THEN "Equal"
    ELSE IF a[i] = b[i] THEN cmp_loop(a, b, i - 1)
    ELSE IF a[i] < b[i] THEN "Less" ELSE "Greater"

\* mutant: the least significant unequal byte decides
cmp_least_significant_first(self, other) ==
    LET d == {i \in 1..NBytes : self[i] # other[i]}
    IN  IF d = {} THEN "Equal"
        ELSE LET i == CHOOSE i \in d : \A j \in d : i <= j
             IN  IF self[i] < other[i] THEN "Less" ELSE "Greater"

cmp(self, other) == cmp_loop(self, other, NBytes)
lt(a, b) == cmp(a, b) = "Less"
gt(a, b) == cmp(a, b) = "Greater"
\* mutant: >= taken as >
ge_strict(a, b) == cmp(a, b) = "Greater"
ge(a, b) == cmp(a, b) # "Less"

RECURSIVE sub_loop(_, _, _, _, _)
sub_loop(a, b, i, borrow, result) ==
    IF i > NBytes THEN [result |-> result, borrow |-> borrow]
    ELSE LET diff == a[i] - b[i] - borrow
         IN  IF diff < 0
             THEN sub_loop(a, b, i + 1, 1, [result EXCEPT ![i] = diff + Base])
             ELSE sub_loop(a, b, i + 1, 0, [result EXCEPT ![i] = diff])

\* mutant: the test for underflow is skipped, the borrow out of the most
\* significant byte is dropped
checked_sub_wrapping(self, other) ==
    Some(sub_loop(self, other, 1, 0, ZERO).result)

\* mutant: equal operands are taken for an underflow
checked_sub_rejects_equal(self, other) ==
    IF cmp_loop(self, other, NBytes) # "Greater" THEN None
    ELSE Some(sub_loop(self, other, 1, 0, ZERO).result)

checked_sub(self, other) ==
    IF lt(self, other) THEN None
    ELSE Some(sub_loop(self, other, 1, 0, ZERO).result)

is_zero(u) == \A i \in 1..NBytes : u[i] = 0

(***************************************************************************)
(* Storage keys and event names.                                           *)
(***************************************************************************)
NAME_KEY == "NAME"
SYMBOL_KEY == "SYMBOL"
DECIMALS_KEY == "DECIMALS"
TOTAL_SUPPLY_KEY == "TOTAL_SUPPLY"
BALANCE_KEY_PREFIX == "BALANCE"
ALLOWANCE_KEY_PREFIX == "ALLOWANCE"
OWNER_KEY == "OWNER"

TRANSFER_EVENT == "TRANSFER SUCCESS"
APPROVAL_EVENT == "APPROVAL SUCCESS"
MINT_EVENT == "MINT SUCCESS"
BURN_EVENT == "BURN_SUCCESS"
CHANGE_OWNER_EVENT == "CHANGE_OWNER"

balance_key(address) == BALANCE_KEY_PREFIX \o address
allowance_key(owner, spender) == (ALLOWANCE_KEY_PREFIX \o owner) \o spender

(***************************************************************************)
(* The execution of one call: x.st is the store as the call sees it (its   *)
(* own writes included), x.ev the records it has generated, x.w the number *)
(* of writes it has issued, x.ok whether it is still running or returned   *)
(* (TRUE) or has panicked (FALSE).                                         *)
(***************************************************************************)
Begin(st) == [st |-> st, ev |-> <<>>, w |-> 0, ok |-> TRUE]
Panic(x) == [x EXCEPT !.ok = FALSE]

storage_has(x, key) == key \in DOMAIN x.st
storage_get(x, key) == x.st[key]
storage_set(x, key, value) ==
    [x EXCEPT !.st = (key :> value) @@ x.st, !.w = x.w + 1]
generate_event(x, record) == [x EXCEPT !.ev = Append(x.ev, record)]

\* the value of a stored blob as the getters decode it
decode_u256(data) ==
    IF Len(data) >= NBytes THEN from_le_bytes(SubSeq(data, 1, NBytes)) ELSE ZERO

get_balance(x, address) ==
    LET key == balance_key(address)
    IN  IF ~storage_has(x, key) THEN ZERO ELSE decode_u256(storage_get(x, key))

set_balance(x, address, amount) ==
    storage_set(x, balance_key(address), to_le_bytes(amount))

get_allowance(x, owner, spender) ==
    LET key == allowance_key(owner, spender)
    IN  IF ~storage_has(x, key) THEN ZERO ELSE decode_u256(storage_get(x, key))

\* mutant: the amount is stored under the total supply's key
set_allowance_under_supply(x, owner, spender, amount) ==
    storage_set(x, TOTAL_SUPPLY_KEY, to_le_bytes(amount))

set_allowance(x, owner, spender, amount) ==
    storage_set(x, allowance_key(owner, spender), to_le_bytes(amount))

get_total_supply(x) ==
    IF ~storage_has(x, TOTAL_SUPPLY_KEY) THEN ZERO
    ELSE decode_u256(storage_get(x, TOTAL_SUPPLY_KEY))

set_total_supply(x, amount) ==
    storage_set(x, TOTAL_SUPPLY_KEY, to_le_bytes(amount))

\* Option<String>
get_owner(x) ==
    IF ~storage_has(x, OWNER_KEY) THEN [some |-> FALSE, val |-> ""]
    ELSE [some |-> TRUE, val |-> storage_get(x, OWNER_KEY)]

\* mutant: the owner is stored under the symbol's key
set_owner_internal_under_symbol(x, owner) == storage_set(x, SYMBOL_KEY, owner)

set_owner_internal(x, owner) == storage_set(x, OWNER_KEY, owner)

\* mutant: the caller is not compared with the owner
only_owner_unchecked(x, caller) == get_owner(x).some

\* the two assertions of only_owner: TRUE when both pass
only_owner(x, caller) ==
    LET owner == get_owner(x)
    IN  owner.some /\ caller = owner.val

is_owner_check(x, address) ==
    LET owner == get_owner(x)
    IN  IF owner.some THEN owner.val = address ELSE FALSE

(***************************************************************************)
(* Args: the argument buffer as the sequence of the items packed into it.  *)
(* next_* takes the next item when there is one of the asked kind and      *)
(* fails otherwise (a missing or undecodable argument).                    *)
(***************************************************************************)
Str(s) == [str |-> s]
Bytes(b) == [bytes |-> b]
U8(n) == [u8 |-> n]

next_string(args) ==
    IF Len(args) > 0 /\ "str" \in DOMAIN Head(args)
    THEN [ok |-> TRUE, val |-> Head(args).str, rest |-> Tail(args)]
    ELSE [ok |-> FALSE, val |-> "", rest |-> args]

next_bytes(args) ==
    IF Len(args) > 0 /\ "bytes" \in DOMAIN Head(args)
    THEN [ok |-> TRUE, val |-> Head(args).bytes, rest |-> Tail(args)]
    ELSE [ok |-> FALSE, val |-> <<>>, rest |-> args]

next_u8(args) ==
    IF Len(args) > 0 /\ "u8" \in DOMAIN Head(args)
    THEN [ok |-> TRUE, val |-> Head(args).u8, rest |-> Tail(args)]
    ELSE [ok |-> FALSE, val |-> 0, rest |-> args]

\* the amount argument of every entry point: Ok(bytes) of at least 32 bytes
\* gives the integer of the first 32, anything else panics
read_amount(args) ==
    LET b == next_bytes(args)
    IN  IF b.ok /\ Len(b.val) >= NBytes
        THEN [ok |-> TRUE, val |-> from_le_bytes(SubSeq(b.val, 1, NBytes)),
              rest |-> b.rest]
        ELSE [ok |-> FALSE, val |-> ZERO, rest |-> b.rest]

(***************************************************************************)
(* Entry points.  Each takes the execution x at the start of the call and  *)
(* gives the execution at its end.                                         *)
(***************************************************************************)
\* mutant: the deployment assertion is missing
constructor_any_phase(x, caller, is_deploying_contract, binary_args) ==
    LET n == next_string(binary_args)
        name == IF n.ok THEN n.val ELSE "MassaToken"
        s == next_string(n.rest)
        symbol == IF s.ok THEN s.val ELSE "MT"
        d == next_u8(s.rest)
        decimals == IF d.ok THEN d.val ELSE 18
        b == next_bytes(d.rest)
        total_supply ==
            IF b.ok
            THEN IF Len(b.val) >= NBytes
                 THEN from_le_bytes(SubSeq(b.val, 1, NBytes))
                 ELSE from_u64(DefaultSupplyScalar)
            ELSE from_u64(DefaultSupplyScalar)
        x1 == storage_set(x, NAME_KEY, name)
        x2 == storage_set(x1, SYMBOL_KEY, symbol)
        x3 == storage_set(x2, DECIMALS_KEY, <<decimals>>)
        x4 == set_total_supply(x3, total_supply)
        x5 == set_owner_internal(x4, caller)
        x6 == set_balance(x5, caller, total_supply)
    IN  generate_event(x6, (CHANGE_OWNER_EVENT \o ":") \o caller)

constructor(x, caller, is_deploying_contract, binary_args) ==
    IF ~is_deploying_contract THEN Panic(x) ELSE
    LET n == next_string(binary_args)
        name == IF n.ok THEN n.val ELSE "MassaToken"
        s == next_string(n.rest)
        symbol == IF s.ok THEN s.val ELSE "MT"
        d == next_u8(s.rest)
        decimals == IF d.ok THEN d.val ELSE 18
        b == next_bytes(d.rest)
        total_supply ==
            IF b.ok
            THEN IF Len(b.val) >= NBytes
                 THEN from_le_bytes(SubSeq(b.val, 1, NBytes))
                 ELSE from_u64(DefaultSupplyScalar)
            ELSE from_u64(DefaultSupplyScalar)
        x1 == storage_set(x, NAME_KEY, name)
        x2 == storage_set(x1, SYMBOL_KEY, symbol)
        x3 == storage_set(x2, DECIMALS_KEY, <<decimals>>)
        x4 == set_total_supply(x3, total_supply)
        x5 == set_owner_internal(x4, caller)
        x6 == set_balance(x5, caller, total_supply)
    IN  generate_event(x6, (CHANGE_OWNER_EVENT \o ":") \o caller)

\* mutant: the self-transfer assertion is missing
transfer_no_self_check(x, caller, binary_args) ==
    LET a1 == next_string(binary_args) IN
    IF ~a1.ok THEN Panic(x) ELSE
    LET to == a1.val
        a2 == read_amount(a1.rest) IN
    IF ~a2.ok THEN Panic(x) ELSE
    LET amount == a2.val
        from == caller
        from_balance == get_balance(x, from)
        to_balance == get_balance(x, to) IN
    IF ~ge(from_balance, amount) THEN Panic(x) ELSE
    LET new_to_balance == checked_add(to_balance, amount) IN
    IF ~new_to_balance.some THEN Panic(x) ELSE
    LET new_from_balance == checked_sub(from_balance, amount) IN
    IF ~new_from_balance.some THEN Panic(x) ELSE
    LET x1 == set_balance(x, from, new_from_balance.val)
        x2 == set_balance(x1, to, new_to_balance.val)
    IN  generate_event(x2, TRANSFER_EVENT)

\* mutant: the recipient's new balance is computed from the sender's balance
transfer_credits_from_sender(x, caller, binary_args) ==
    LET a1 == next_string(binary_args) IN
    IF ~a1.ok THEN Panic(x) ELSE
    LET to == a1.val
        a2 == read_amount(a1.rest) IN
    IF ~a2.ok THEN Panic(x) ELSE
    LET amount == a2.val
        from == caller IN
    IF ~(from # to) THEN Panic(x) ELSE
    LET from_balance == get_balance(x, from) IN
    IF ~ge(from_balance, amount) THEN Panic(x) ELSE
    LET new_to_balance == checked_add(from_balance, amount) IN
    IF ~new_to_balance.some THEN Panic(x) ELSE
    LET new_from_balance == checked_sub(from_balance, amount) IN
    IF ~new_from_balance.some THEN Panic(x) ELSE
    LET x1 == set_balance(x, from, new_from_balance.val)
        x2 == set_balance(x1, to, new_to_balance.val)
    IN  generate_event(x2, TRANSFER_EVENT)

\* mutant: the recipient is credited, the sender is not debited
transfer_keeps_sender(x, caller, binary_args) ==
    LET a1 == next_string(binary_args) IN
    IF ~a1.ok THEN Panic(x) ELSE
    LET to == a1.val
        a2 == read_amount(a1.rest) IN
    IF ~a2.ok THEN Panic(x) ELSE
    LET amount == a2.val
        from == caller IN
    IF ~(from # to) THEN Panic(x) ELSE
    LET from_balance == get_balance(x, from)
        to_balance == get_balance(x, to) IN
    IF ~ge(from_balance, amount) THEN Panic(x) ELSE
    LET new_to_balance == checked_add(to_balance, amount) IN
    IF ~new_to_balance.some THEN Panic(x) ELSE
    LET x2 == set_balance(x, to, new_to_balance.val)
    IN  generate_event(x2, TRANSFER_EVENT)

transfer(x, caller, binary_args) ==
    LET a1 == next_string(binary_args) IN
    IF ~a1.ok THEN Panic(x) ELSE
    LET to == a1.val
        a2 == read_amount(a1.rest) IN
    IF ~a2.ok THEN Panic(x) ELSE
    LET amount == a2.val
        from == caller IN
    IF ~(from # to) THEN Panic(x) ELSE
    LET from_balance == get_balance(x, from)
        to_balance == get_balance(x, to) IN
    IF ~ge(from_balance, amount) THEN Panic(x) ELSE
    LET new_to_balance == checked_add(to_balance, amount) IN
    IF ~new_to_balance.some THEN Panic(x) ELSE
    LET new_from_balance == checked_sub(from_balance, amount) IN
    IF ~new_from_balance.some THEN Panic(x) ELSE
    LET x1 == set_balance(x, from, new_from_balance.val)
        x2 == set_balance(x1, to, new_to_balance.val)
    IN  generate_event(x2, TRANSFER_EVENT)

\* mutant: an overflow of the allowance panics instead of clamping
increaseAllowance_rejects_overflow(x, caller, binary_args) ==
    LET a1 == next_string(binary_args) IN
    IF ~a1.ok THEN Panic(x) ELSE
    LET spender == a1.val
        a2 == read_amount(a1.rest) IN
    IF ~a2.ok THEN Panic(x) ELSE
    LET amount == a2.val
        owner == caller
        current == get_allowance(x, owner, spender)
        sum == checked_add(current, amount) IN
    IF ~sum.some THEN Panic(x) ELSE
    LET x1 == set_allowance(x, owner, spender, sum.val)
    IN  generate_event(x1, APPROVAL_EVENT)

increaseAllowance(x, caller, binary_args) ==
    LET a1 == next_string(binary_args) IN
    IF ~a1.ok THEN Panic(x) ELSE
    LET spender == a1.val
        a2 == read_amount(a1.rest) IN
    IF ~a2.ok THEN Panic(x) ELSE
    LET amount == a2.val
        owner == caller
        current == get_allowance(x, owner, spender)
        sum == checked_add(current, amount)
        new_allowance == IF sum.some THEN sum.val ELSE MAX
        x1 == set_allowance(x, owner, spender, new_allowance)
    IN  generate_event(x1, APPROVAL_EVENT)

\* mutant: a decrease below zero panics instead of clamping
decreaseAllowance_rejects_underflow(x, caller, binary_args) ==
    LET a1 == next_string(binary_args) IN
    IF ~a1.ok THEN Panic(x) ELSE
    LET spender == a1.val
        a2 == read_amount(a1.rest) IN
    IF ~a2.ok THEN Panic(x) ELSE
    LET amount == a2.val
        owner == caller
        current == get_allowance(x, owner, spender)
        new_allowance == checked_sub(current, amount) IN
    IF ~new_allowance.some THEN Panic(x) ELSE
    LET x1 == set_allowance(x, owner, spender, new_allowance.val)
    IN  generate_event(x1, APPROVAL_EVENT)

decreaseAllowance(x, caller, binary_args) ==
    LET a1 == next_string(binary_args) IN
    IF ~a1.ok THEN Panic(x) ELSE
    LET spender == a1.val
        a2 == read_amount(a1.rest) IN
    IF ~a2.ok THEN Panic(x) ELSE
    LET amount == a2.val
        owner == caller
        current == get_allowance(x, owner, spender) IN
    IF gt(current, amount) /\ ~checked_sub(current, amount).some THEN Panic(x) ELSE
    LET new_allowance == IF gt(current, amount)
                         THEN checked_sub(current, amount).val
                         ELSE ZERO
        x1 == set_allowance(x, owner, spender, new_allowance)
    IN  generate_event(x1, APPROVAL_EVENT)

\* mutant: the allowance is checked but not decreased
transferFrom_keeps_allowance(x, caller, binary_args) ==
    LET a1 == next_string(binary_args) IN
    IF ~a1.ok THEN Panic(x) ELSE
    LET owner == a1.val
        a2 == next_string(a1.rest) IN
    IF ~a2.ok THEN Panic(x) ELSE
    LET recipient == a2.val
        a3 == read_amount(a2.rest) IN
    IF ~a3.ok THEN Panic(x) ELSE
    LET amount == a3.val
        spender == caller IN
    IF ~(owner # recipient) THEN Panic(x) ELSE
    LET spender_allowance == get_allowance(x, owner, spender) IN
    IF ~ge(spender_allowance, amount) THEN Panic(x) ELSE
    LET owner_balance == get_balance(x, owner)
        recipient_balance == get_balance(x, recipient) IN
    IF ~ge(owner_balance, amount) THEN Panic(x) ELSE
    LET new_recipient_balance == checked_add(recipient_balance, amount) IN
    IF ~new_recipient_balance.some THEN Panic(x) ELSE
    LET new_owner_balance == checked_sub(owner_balance, amount) IN
    IF ~new_owner_balance.some THEN Panic(x) ELSE
    LET x1 == set_balance(x, owner, new_owner_balance.val)
        x2 == set_balance(x1, recipient, new_recipient_balance.val)
    IN  generate_event(x2, TRANSFER_EVENT)

\* mutant: a caller that is the owner needs no allowance
transferFrom_owner_exempt(x, caller, binary_args) ==
    LET a1 == next_string(binary_args) IN
    IF ~a1.ok THEN Panic(x) ELSE
    LET owner == a1.val
        a2 == next_string(a1.rest) IN
    IF ~a2.ok THEN Panic(x) ELSE
    LET recipient == a2.val
        a3 == read_amount(a2.rest) IN
    IF ~a3.ok THEN Panic(x) ELSE
    LET amount == a3.val
        spender == caller IN
    IF ~(owner # recipient) THEN Panic(x) ELSE
    LET spender_allowance == get_allowance(x, owner, spender) IN
    IF spender # owner /\ ~ge(spender_allowance, amount) THEN Panic(x) ELSE
    LET owner_balance == get_balance(x, owner)
        recipient_balance == get_balance(x, recipient) IN
    IF ~ge(owner_balance, amount) THEN Panic(x) ELSE
    LET new_recipient_balance == checked_add(recipient_balance, amount) IN
    IF ~new_recipient_balance.some THEN Panic(x) ELSE
    LET new_owner_balance == checked_sub(owner_balance, amount) IN
    IF ~new_owner_balance.some THEN Panic(x) ELSE
    LET x1 == set_balance(x, owner, new_owner_balance.val)
        x2 == set_balance(x1, recipient, new_recipient_balance.val) IN
    IF spender = owner THEN generate_event(x2, TRANSFER_EVENT) ELSE
    LET new_allowance == checked_sub(spender_allowance, amount) IN
    IF ~new_allowance.some THEN Panic(x2) ELSE
    LET x3 == set_allowance(x2, owner, spender, new_allowance.val)
    IN  generate_event(x3, TRANSFER_EVENT)

transferFrom(x, caller, binary_args) ==
    LET a1 == next_string(binary_args) IN
    IF ~a1.ok THEN Panic(x) ELSE
    LET owner == a1.val
        a2 == next_string(a1.rest) IN
    IF ~a2.ok THEN Panic(x) ELSE
    LET recipient == a2.val
        a3 == read_amount(a2.rest) IN
    IF ~a3.ok THEN Panic(x) ELSE
    LET amount == a3.val
        spender == caller IN
    IF ~(owner # recipient) THEN Panic(x) ELSE
    LET spender_allowance == get_allowance(x, owner, spender) IN
    IF ~ge(spender_allowance, amount) THEN Panic(x) ELSE
    LET owner_balance == get_balance(x, owner)
        recipient_balance == get_balance(x, recipient) IN
    IF ~ge(owner_balance, amount) THEN Panic(x) ELSE
    LET new_recipient_balance == checked_add(recipient_balance, amount) IN
    IF ~new_recipient_balance.some THEN Panic(x) ELSE
    LET new_owner_balance == checked_sub(owner_balance, amount) IN
    IF ~new_owner_balance.some THEN Panic(x) ELSE
    LET new_allowance == checked_sub(spender_allowance, amount) IN
    IF ~new_allowance.some THEN Panic(x) ELSE
    LET x1 == set_balance(x, owner, new_owner_balance.val)
        x2 == set_balance(x1, recipient, new_recipient_balance.val)
        x3 == set_allowance(x2, owner, spender, new_allowance.val)
    IN  generate_event(x3, TRANSFER_EVENT)

\* mutant: the recipient is credited, the total supply is left as it was
mint_keeps_supply(x, caller, binary_args) ==
    IF ~only_owner(x, caller) THEN Panic(x) ELSE
    LET a1 == next_string(binary_args) IN
    IF ~a1.ok THEN Panic(x) ELSE
    LET recipient == a1.val
        a2 == read_amount(a1.rest) IN
    IF ~a2.ok THEN Panic(x) ELSE
    LET amount == a2.val
        old_balance == get_balance(x, recipient)
        new_balance == checked_add(old_balance, amount) IN
    IF ~new_balance.some THEN Panic(x) ELSE
    LET x2 == set_balance(x, recipient, new_balance.val)
    IN  generate_event(x2, MINT_EVENT)

mint(x, caller, binary_args) ==
    IF ~only_owner(x, caller) THEN Panic(x) ELSE
    LET a1 == next_string(binary_args) IN
    IF ~a1.ok THEN Panic(x) ELSE
    LET recipient == a1.val
        a2 == read_amount(a1.rest) IN
    IF ~a2.ok THEN Panic(x) ELSE
    LET amount == a2.val
        old_supply == get_total_supply(x)
        new_supply == checked_add(old_supply, amount) IN
    IF ~new_supply.some THEN Panic(x) ELSE
    LET x1 == set_total_supply(x, new_supply.val)
        old_balance == get_balance(x1, recipient)
        new_balance == checked_add(old_balance, amount) IN
    IF ~new_balance.some THEN Panic(x1) ELSE
    LET x2 == set_balance(x1, recipient, new_balance.val)
    IN  generate_event(x2, MINT_EVENT)

\* mutant: the total supply is checked but not decreased
burn_keeps_supply(x, caller, binary_args) ==
    LET a1 == read_amount(binary_args) IN
    IF ~a1.ok THEN Panic(x) ELSE
    LET amount == a1.val
        old_supply == get_total_supply(x)
        new_supply == checked_sub(old_supply, amount) IN
    IF ~new_supply.some THEN Panic(x) ELSE
    LET old_balance == get_balance(x, caller)
        new_balance == checked_sub(old_balance, amount) IN
    IF ~new_balance.some THEN Panic(x) ELSE
    LET x2 == set_balance(x, caller, new_balance.val)
    IN  generate_event(x2, BURN_EVENT)

\* mutant: an underflow of the caller's balance returns instead of panicking
burn_returns_on_underflow(x, caller, binary_args) ==
    LET a1 == read_amount(binary_args) IN
    IF ~a1.ok THEN Panic(x) ELSE
    LET amount == a1.val
        old_supply == get_total_supply(x)
        new_supply == checked_sub(old_supply, amount) IN
    IF ~new_supply.some THEN Panic(x) ELSE
    LET x1 == set_total_supply(x, new_supply.val)
        old_balance == get_balance(x1, caller)
        new_balance == checked_sub(old_balance, amount) IN
    IF ~new_balance.some THEN x1 ELSE
    LET x2 == set_balance(x1, caller, new_balance.val)
    IN  generate_event(x2, BURN_EVENT)

burn(x, caller, binary_args) ==
    LET a1 == read_amount(binary_args) IN
    IF ~a1.ok THEN Panic(x) ELSE
    LET amount == a1.val
        old_supply == get_total_supply(x)
        new_supply == checked_sub(old_supply, amount) IN
    IF ~new_supply.some THEN Panic(x) ELSE
    LET x1 == set_total_supply(x, new_supply.val)
        old_balance == get_balance(x1, caller)
        new_balance == checked_sub(old_balance, amount) IN
    IF ~new_balance.some THEN Panic(x1) ELSE
    LET x2 == set_balance(x1, caller, new_balance.val)
    IN  generate_event(x2, BURN_EVENT)

\* mutant: the burn record is not generated
burnFrom_no_event(x, caller, binary_args) ==
    LET a1 == next_string(binary_args) IN
    IF ~a1.ok THEN Panic(x) ELSE
    LET owner == a1.val
        a2 == read_amount(a1.rest) IN
    IF ~a2.ok THEN Panic(x) ELSE
    LET amount == a2.val
        spender == caller
        spender_allowance == get_allowance(x, owner, spender) IN
    IF ~ge(spender_allowance, amount) THEN Panic(x) ELSE
    LET old_supply == get_total_supply(x)
        new_supply == checked_sub(old_supply, amount) IN
    IF ~new_supply.some THEN Panic(x) ELSE
    LET x1 == set_total_supply(x, new_supply.val)
        old_balance == get_balance(x1, owner)
        new_balance == checked_sub(old_balance, amount) IN
    IF ~new_balance.some THEN Panic(x1) ELSE
    LET x2 == set_balance(x1, owner, new_balance.val)
        new_allowance == checked_sub(spender_allowance, amount) IN
    IF ~new_allowance.some THEN Panic(x2) ELSE
    LET x3 == set_allowance(x2, owner, spender, new_allowance.val)
    IN  x3

\* mutant: the allowance is not compared with the amount; what is left of it
\* is stored, zero when the amount exceeds it
burnFrom_allowance_unchecked(x, caller, binary_args) ==
    LET a1 == next_string(binary_args) IN
    IF ~a1.ok THEN Panic(x) ELSE
    LET owner == a1.val
        a2 == read_amount(a1.rest) IN
    IF ~a2.ok THEN Panic(x) ELSE
    LET amount == a2.val
        spender == caller
        spender_allowance == get_allowance(x, owner, spender)
        old_supply == get_total_supply(x)
        new_supply == checked_sub(old_supply, amount) IN
    IF ~new_supply.some THEN Panic(x) ELSE
    LET x1 == set_total_supply(x, new_supply.val)
        old_balance == get_balance(x1, owner)
        new_balance == checked_sub(old_balance, amount) IN
    IF ~new_balance.some THEN Panic(x1) ELSE
    LET x2 == set_balance(x1, owner, new_balance.val)
        new_allowance == checked_sub(spender_allowance, amount)
        x3 == set_allowance(x2, owner, spender, new_allowance.val)
    IN  generate_event(x3, BURN_EVENT)

burnFrom(x, caller, binary_args) ==
    LET a1 == next_string(binary_args) IN
    IF ~a1.ok THEN Panic(x) ELSE
    LET owner == a1.val
        a2 == read_amount(a1.rest) IN
    IF ~a2.ok THEN Panic(x) ELSE
    LET amount == a2.val
        spender == caller
        spender_allowance == get_allowance(x, owner, spender) IN
    IF ~ge(spender_allowance, amount) THEN Panic(x) ELSE
    LET old_supply == get_total_supply(x)
        new_supply == checked_sub(old_supply, amount) IN
    IF ~new_supply.some THEN Panic(x) ELSE
    LET x1 == set_total_supply(x, new_supply.val)
        old_balance == get_balance(x1, owner)
        new_balance == checked_sub(old_balance, amount) IN
    IF ~new_balance.some THEN Panic(x1) ELSE
    LET x2 == set_balance(x1, owner, new_balance.val)
        new_allowance == checked_sub(spender_allowance, amount) IN
    IF ~new_allowance.some THEN Panic(x2) ELSE
    LET x3 == set_allowance(x2, owner, spender, new_allowance.val)
    IN  generate_event(x3, BURN_EVENT)

\* mutant: the owner is reassigned without asking who calls
setOwner_ungated(x, caller, binary_args) ==
    LET a1 == next_string(binary_args) IN
    IF ~a1.ok THEN Panic(x) ELSE
    LET new_owner == a1.val
        x1 == set_owner_internal(x, new_owner)
    IN  generate_event(x1, (CHANGE_OWNER_EVENT \o ":") \o new_owner)

\* mutant: an owner who names a successor stays owner
setOwner_keeps_owner(x, caller, binary_args) ==
    LET a1 == next_string(binary_args) IN
    IF ~a1.ok THEN Panic(x) ELSE
    LET new_owner == a1.val IN
    IF get_owner(x).some /\ ~only_owner(x, caller) THEN Panic(x) ELSE
    LET x1 == IF get_owner(x).some THEN set_owner_internal(x, caller)
              ELSE set_owner_internal(x, new_owner)
    IN  generate_event(x1, (CHANGE_OWNER_EVENT \o ":") \o new_owner)

setOwner(x, caller, binary_args) ==
    LET a1 == next_string(binary_args) IN
    IF ~a1.ok THEN Panic(x) ELSE
    LET new_owner == a1.val IN
    IF get_owner(x).some /\ ~only_owner(x, caller) THEN Panic(x) ELSE
    LET x1 == set_owner_internal(x, new_owner)
    IN  generate_event(x1, (CHANGE_OWNER_EVENT \o ":") \o new_owner)

(***************************************************************************)
(* Read-only entry points.  Each gives the execution at its end and the    *)
(* bytes it returns.  name, symbol, decimals and totalSupply read their    *)
(* key without asking whether it is stored; what the storage primitive     *)
(* does for a key that is not stored is the environment's choice           *)
(* (absent): the call aborts ("panic") or gets no bytes ("empty").         *)
(***************************************************************************)
VERSION == "0.0.1"

Returns(x, ret) == [x |-> x, ret |-> ret]

storage_get_unchecked(x, key, absent) ==
    IF storage_has(x, key) THEN Returns(x, storage_get(x, key))
    ELSE IF absent = "panic" THEN Returns(Panic(x), <<>>)
    ELSE Returns(x, <<>>)

version(x, binary_args) == Returns(x, VERSION)

name(x, binary_args, absent) == storage_get_unchecked(x, NAME_KEY, absent)

symbol(x, binary_args, absent) == storage_get_unchecked(x, SYMBOL_KEY, absent)

decimals(x, binary_args, absent) == storage_get_unchecked(x, DECIMALS_KEY, absent)

totalSupply(x, binary_args, absent) ==
    storage_get_unchecked(x, TOTAL_SUPPLY_KEY, absent)

\* mutant: an address without an entry gets one, holding zero
balanceOf_creates_entry(x, binary_args) ==
    LET a1 == next_string(binary_args) IN
    IF ~a1.ok THEN Returns(Panic(x), <<>>) ELSE
    LET address == a1.val
        balance == get_balance(x, address)
        x1 == IF storage_has(x, balance_key(address)) THEN x
              ELSE set_balance(x, address, balance)
    IN  Returns(x1, to_le_bytes(balance))

balanceOf(x, binary_args) ==
    LET a1 == next_string(binary_args) IN
    IF ~a1.ok THEN Returns(Panic(x), <<>>) ELSE
    LET address == a1.val
        balance == get_balance(x, address)
    IN  Returns(x, to_le_bytes(balance))

allowance(x, binary_args) ==
    LET a1 == next_string(binary_args) IN
    IF ~a1.ok THEN Returns(Panic(x), <<>>) ELSE
    LET owner == a1.val
        a2 == next_string(a1.rest) IN
    IF ~a2.ok THEN Returns(Panic(x), <<>>) ELSE
    LET spender == a2.val
        amount == get_allowance(x, owner, spender)
    IN  Returns(x, to_le_bytes(amount))

ownerAddress(x, binary_args) ==
    IF ~storage_has(x, OWNER_KEY) THEN Returns(x, <<>>)
    ELSE Returns(x, storage_get(x, OWNER_KEY))

isOwner(x, binary_args) ==
    IF ~storage_has(x, OWNER_KEY) THEN Returns(x, <<0>>) ELSE
    LET a1 == next_string(binary_args) IN
    IF ~a1.ok THEN Returns(Panic(x), <<>>) ELSE
    LET address == a1.val
    IN  IF is_owner_check(x, address) THEN Returns(x, <<1>>) ELSE Returns(x, <<0>>)

(***************************************************************************)
(* State.                                                                  *)
(***************************************************************************)
VARIABLES
    store,      \* the contract's key-value store: key |-> stored blob
    last,       \* the most recent call: entry point, call context (caller,
                \* is_deploying_contract), argument buffer, outcome, records
                \* generated, writes issued
    calls,      \* number of committed calls so far
    ledger,     \* history: "unconstructed", "fresh" (constructed once, by the
                \* first committed call), "other"
    credit      \* history: per (owner, spender), the amounts granted by the
                \* owner's increaseAllowance calls minus the amounts spent by
                \* the spender's transferFrom and burnFrom calls

vars == <<store, last, calls, ledger, credit>>

\* Addresses are strings of any length, and an address argument is any
\* string.  The accounts that call are A and AA; B only holds tokens; the
\* empty string is tried as a spender.
Callers == {"A", "AA"}
Holders == Callers \cup {"B"}
Spenders == Callers \cup {""}
Addrs == Holders \cup Spenders

Amounts == {ZERO, from_u64(1), MAX}

\* an amount argument shorter than a wide integer
ShortBytes == [i \in 1..(NBytes - 1) |-> 1]

\* argument buffers: the well-formed ones and two malformed ones (an empty
\* buffer, an amount that is too short)
AddrAmountArgs ==
    {<<Str(a), Bytes(to_le_bytes(m))>> : a \in Holders, m \in Amounts}
        \cup {<<>>, <<Str("A"), Bytes(ShortBytes)>>}
SpenderAmountArgs ==
    {<<Str(a), Bytes(to_le_bytes(m))>> : a \in Spenders, m \in Amounts}
        \cup {<<>>, <<Str("A"), Bytes(ShortBytes)>>}
AddrAddrAmountArgs ==
    {<<Str(a), Str(b), Bytes(to_le_bytes(m))>> : a \in Holders, b \in Holders, m \in Amounts}
        \cup {<<>>, <<Str("A"), Str("B"), Bytes(ShortBytes)>>}
AmountArgs ==
    {<<Bytes(to_le_bytes(m))>> : m \in Amounts} \cup {<<>>, <<Bytes(ShortBytes)>>}
AddrArgs == {<<Str(a)>> : a \in Callers} \cup {<<>>}
ConstructorArgs ==
    {<<Str("TestToken"), Str("TTK"), U8(18), Bytes(to_le_bytes(m))>> : m \in Amounts}
        \cup {<<>>, <<Str("TestToken"), Str("TTK"), U8(18), Bytes(ShortBytes)>>}

\* the numeric value of a wide integer
RECURSIVE value_from(_, _)
value_from(u, i) == IF i > NBytes THEN 0 ELSE u[i] * Pow(Base, i - 1) + value_from(u, i + 1)
Value(u) == value_from(u, 1)

\* the ledger as read from the committed store
Balance(a) == get_balance(Begin(store), a)
Allowance(o, s) == get_allowance(Begin(store), o, s)
TotalSupply == get_total_supply(Begin(store))
Owner == get_owner(Begin(store))

Init ==
    /\ store = <<>>
    /\ last = [op |-> "none", caller |-> "", deploying |-> FALSE, args |-> <<>>,
               ok |-> TRUE, ev |-> <<>>, w |-> 0]
    /\ calls = 0
    /\ ledger = "unconstructed"
    /\ credit = [p \in Addrs \X Addrs |-> 0]

\* the amount a delegated spend or a grant names, and the pair it concerns
GrantOf(caller, binary_args) ==
    LET a1 == next_string(binary_args)
    IN  [pair |-> <<caller, a1.val>>, amount |-> read_amount(a1.rest).val]
SpendOf(op, caller, binary_args) ==
    LET a1 == next_string(binary_args)
        rest == IF op = "transferFrom" THEN next_string(a1.rest).rest ELSE a1.rest
    IN  [pair |-> <<a1.val, caller>>, amount |-> read_amount(rest).val]

(***************************************************************************)
(* The hosting environment runs one call to its end: the writes of a call  *)
(* that returned are committed, the writes of a call that panicked are     *)
(* discarded with it.  A call that panicked leaves the store as it was, so *)
(* the calls that can follow it are the calls that could have been made in *)
(* its place: a behaviour is followed after committed calls only.          *)
(***************************************************************************)
Host(op, caller, is_deploying_contract, binary_args, x) ==
    /\ last.ok
    /\ calls < (IF ledger = "other" THEN MaxOtherCalls ELSE MaxCalls)
    /\ store' = IF x.ok THEN x.st ELSE store
    /\ last' = [op |-> op, caller |-> caller, deploying |-> is_deploying_contract,
                args |-> binary_args, ok |-> x.ok, ev |-> x.ev, w |-> x.w]
    /\ calls' = IF x.ok THEN calls + 1 ELSE calls
    /\ ledger' = IF ~x.ok THEN ledger
                 ELSE IF op = "constructor"
                      THEN (IF ledger = "unconstructed" THEN "fresh" ELSE "other")
                      ELSE (IF ledger = "fresh" THEN "fresh" ELSE "other")
    /\ credit' = IF ~x.ok THEN credit
                 ELSE IF op = "increaseAllowance"
                      THEN LET g == GrantOf(caller, binary_args)
                           IN  [credit EXCEPT ![g.pair] = @ + Value(g.amount)]
                 ELSE IF op \in {"transferFrom", "burnFrom"}
                      THEN LET g == SpendOf(op, caller, binary_args)
                           IN  [credit EXCEPT ![g.pair] = @ - Value(g.amount)]
                 ELSE credit

\* The call context gives the caller and whether the call is made while the
\* contract is being deployed; only the constructor asks for the latter.
Constructor(caller, is_deploying_contract, binary_args) ==
    Host("constructor", caller, is_deploying_contract, binary_args,
         constructor(Begin(store), caller, is_deploying_contract, binary_args))
Transfer(caller, binary_args) ==
    Host("transfer", caller, FALSE, binary_args,
         transfer(Begin(store), caller, binary_args))
IncreaseAllowance(caller, binary_args) ==
    Host("increaseAllowance", caller, FALSE, binary_args,
         increaseAllowance(Begin(store), caller, binary_args))
DecreaseAllowance(caller, binary_args) ==
    Host("decreaseAllowance", caller, FALSE, binary_args,
         decreaseAllowance(Begin(store), caller, binary_args))
TransferFrom(caller, binary_args) ==
    Host("transferFrom", caller, FALSE, binary_args,
         transferFrom(Begin(store), caller, binary_args))
Mint(caller, binary_args) ==
    Host("mint", caller, FALSE, binary_args, mint(Begin(store), caller, binary_args))
Burn(caller, binary_args) ==
    Host("burn", caller, FALSE, binary_args, burn(Begin(store), caller, binary_args))
BurnFrom(caller, binary_args) ==
    Host("burnFrom", caller, FALSE, binary_args,
         burnFrom(Begin(store), caller, binary_args))
SetOwner(caller, binary_args) ==
    Host("setOwner", caller, FALSE, binary_args,
         setOwner(Begin(store), caller, binary_args))

Next ==
    \/ \E c \in Callers, d \in BOOLEAN, b \in ConstructorArgs : Constructor(c, d, b)
    \/ \E c \in Callers, b \in AddrAmountArgs : Transfer(c, b)
    \/ \E c \in Callers, b \in SpenderAmountArgs : IncreaseAllowance(c, b)
    \/ \E c \in Callers, b \in SpenderAmountArgs : DecreaseAllowance(c, b)
    \/ \E c \in Callers, b \in AddrAddrAmountArgs : TransferFrom(c, b)
    \/ \E c \in Callers, b \in AddrAmountArgs : Mint(c, b)
    \/ \E c \in Callers, b \in AmountArgs : Burn(c, b)
    \/ \E c \in Callers, b \in AddrAmountArgs : BurnFrom(c, b)
    \/ \E c \in Callers, b \in AddrArgs : SetOwner(c, b)

Spec == Init /\ [][Next]_vars

(***************************************************************************)
(* The same ledger with the read-only entry points.  A read is recorded    *)
(* like any call, with the bytes it returned.  A read that leaves the      *)
(* store as it was is followed by the calls that could have been made in   *)
(* its place, so a behaviour is not followed after a read; the mutating    *)
(* calls are followed for MaxReadCalls committed calls.                    *)
(***************************************************************************)
ReadOps == {"version", "name", "symbol", "decimals", "totalSupply",
            "balanceOf", "allowance", "ownerAddress", "isOwner"}

AbsentKey == {"panic", "empty"}

NoArgs == {<<>>}
OneAddrArgs == {<<Str(a)>> : a \in Addrs} \cup {<<>>}
TwoAddrArgs == {<<Str(a), Str(b)>> : a \in Addrs, b \in Addrs} \cup {<<>>}

HostRead(op, binary_args, r) ==
    /\ last.ok /\ last.op \notin ReadOps
    /\ store' = IF r.x.ok THEN r.x.st ELSE store
    /\ last' = [op |-> op, caller |-> "", deploying |-> FALSE,
                args |-> binary_args, ok |-> r.x.ok, ev |-> r.x.ev, w |-> r.x.w,
                ret |-> r.ret]
    /\ UNCHANGED <<calls, ledger, credit>>

Version(binary_args) == HostRead("version", binary_args, version(Begin(store), binary_args))
Name(binary_args, absent) ==
    HostRead("name", binary_args, name(Begin(store), binary_args, absent))
Symbol(binary_args, absent) ==
    HostRead("symbol", binary_args, symbol(Begin(store), binary_args, absent))
Decimals(binary_args, absent) ==
    HostRead("decimals", binary_args, decimals(Begin(store), binary_args, absent))
TotalSupplyOf(binary_args, absent) ==
    HostRead("totalSupply", binary_args, totalSupply(Begin(store), binary_args, absent))
BalanceOf(binary_args) ==
    HostRead("balanceOf", binary_args, balanceOf(Begin(store), binary_args))
AllowanceOf(binary_args) ==
    HostRead("allowance", binary_args, allowance(Begin(store), binary_args))
OwnerAddress(binary_args) ==
    HostRead("ownerAddress", binary_args, ownerAddress(Begin(store), binary_args))
IsOwner(binary_args) ==
    HostRead("isOwner", binary_args, isOwner(Begin(store), binary_args))

NextRead ==
    \/ last.op \notin ReadOps /\ calls < MaxReadCalls /\ Next
    \/ \E b \in NoArgs : Version(b)
    \/ \E b \in NoArgs, k \in AbsentKey : Name(b, k)
    \/ \E b \in NoArgs, k \in AbsentKey : Symbol(b, k)
    \/ \E b \in NoArgs, k \in AbsentKey : Decimals(b, k)
    \/ \E b \in NoArgs, k \in AbsentKey : TotalSupplyOf(b, k)
    \/ \E b \in OneAddrArgs : BalanceOf(b)
    \/ \E b \in TwoAddrArgs : AllowanceOf(b)
    \/ \E b \in NoArgs : OwnerAddress(b)
    \/ \E b \in OneAddrArgs : IsOwner(b)

SpecRead == Init /\ [][NextRead]_vars

(***************************************************************************)
(* The wide-integer operations on their own: any three integers are the    *)
(* operands, and one operation is applied to them.  The ledger plays no    *)
(* part.                                                                   *)
(***************************************************************************)
InitU256 ==
    /\ store = <<>>
    /\ \E a \in U256Bytes, b \in U256Bytes, c \in U256Bytes :
         last = [op |-> "operands", a |-> a, b |-> b, c |-> c]
    /\ calls = 0
    /\ ledger = "unconstructed"
    /\ credit = [p \in Addrs \X Addrs |-> 0]

Applied(op, fields) ==
    /\ last.op = "operands"
    /\ last' = [op |-> op, a |-> last.a, b |-> last.b, c |-> last.c] @@ fields
    /\ UNCHANGED <<store, calls, ledger, credit>>

CheckedAdd == Applied("checked_add", [result |-> checked_add(last.a, last.b)])

\* borrow: the borrow the loop of checked_sub ends with on these operands
CheckedSub ==
    Applied("checked_sub",
            [result |-> checked_sub(last.a, last.b),
             borrow |-> sub_loop(last.a, last.b, 1, 0, ZERO).borrow])

Cmp ==
    Applied("cmp",
            [ab |-> cmp(last.a, last.b), ba |-> cmp(last.b, last.a),
             bc |-> cmp(last.b, last.c), ac |-> cmp(last.a, last.c)])

AddThenSub ==
    LET sum == checked_add(last.a, last.b)
    IN  Applied("add_then_sub",
                [sum |-> sum,
                 back |-> IF sum.some THEN checked_sub(sum.val, last.b) ELSE None])

NextU256 == CheckedAdd \/ CheckedSub \/ Cmp \/ AddThenSub

SpecU256 == InitU256 /\ [][NextU256]_vars

(***************************************************************************)
(* The ledger with the record of the last handover of ownership: the owner *)
(* o who named another account n owner in a committed setOwner call, kept  *)
(* until n commits a setOwner call of its own.  The record is history; the *)
(* program stores the owner only.                                          *)
(***************************************************************************)
NoHandover == [set |-> FALSE, o |-> "", n |-> ""]

HandoverAfter(h, st, op, caller, binary_args) ==
    IF op # "setOwner" THEN h
    ELSE LET owner == get_owner(Begin(st))
             new_owner == next_string(binary_args).val
         IN  IF owner.some /\ owner.val = caller /\ new_owner # caller
             THEN [set |-> TRUE, o |-> caller, n |-> new_owner]
             ELSE IF h.set /\ caller # h.n THEN h
             ELSE NoHandover

InitHandover ==
    /\ store = <<>>
    /\ last = [op |-> "none", caller |-> "", deploying |-> FALSE, args |-> <<>>,
               ok |-> TRUE, ev |-> <<>>, w |-> 0, handover |-> NoHandover]
    /\ calls = 0
    /\ ledger = "unconstructed"
    /\ credit = [p \in Addrs \X Addrs |-> 0]

HostHandover(op, caller, is_deploying_contract, binary_args, x) ==
    /\ last.ok
    /\ calls < (IF ledger = "other" THEN MaxOtherCalls ELSE MaxCalls)
    /\ store' = IF x.ok THEN x.st ELSE store
    /\ last' = [op |-> op, caller |-> caller, deploying |-> is_deploying_contract,
                args |-> binary_args, ok |-> x.ok, ev |-> x.ev, w |-> x.w,
                handover |-> IF x.ok
                             THEN HandoverAfter(last.handover, store, op, caller,
                                                binary_args)
                             ELSE last.handover]
    /\ calls' = IF x.ok THEN calls + 1 ELSE calls
    /\ ledger' = IF ~x.ok THEN ledger
                 ELSE IF op = "constructor"
                      THEN (IF ledger = "unconstructed" THEN "fresh" ELSE "other")
                      ELSE (IF ledger = "fresh" THEN "fresh" ELSE "other")
    /\ UNCHANGED credit

NextHandover ==
    \/ \E c \in Callers, d \in BOOLEAN, b \in ConstructorArgs :
         HostHandover("constructor", c, d, b, constructor(Begin(store), c, d, b))
    \/ \E c \in Callers, b \in AddrAmountArgs :
         HostHandover("transfer", c, FALSE, b, transfer(Begin(store), c, b))
    \/ \E c \in Callers, b \in SpenderAmountArgs :
         HostHandover("increaseAllowance", c, FALSE, b,
                      increaseAllowance(Begin(store), c, b))
    \/ \E c \in Callers, b \in SpenderAmountArgs :
         HostHandover("decreaseAllowance", c, FALSE, b,
                      decreaseAllowance(Begin(store), c, b))
    \/ \E c \in Callers, b \in AddrAddrAmountArgs :
         HostHandover("transferFrom", c, FALSE, b, transferFrom(Begin(store), c, b))
    \/ \E c \in Callers, b \in AddrAmountArgs :
         HostHandover("mint", c, FALSE, b, mint(Begin(store), c, b))
    \/ \E c \in Callers, b \in AmountArgs :
         HostHandover("burn", c, FALSE, b, burn(Begin(store), c, b))
    \/ \E c \in Callers, b \in AddrAmountArgs :
         HostHandover("burnFrom", c, FALSE, b, burnFrom(Begin(store), c, b))
    \/ \E c \in Callers, b \in AddrArgs :
         HostHandover("setOwner", c, FALSE, b, setOwner(Begin(store), c, b))

SpecHandover == InitHandover /\ [][NextHandover]_vars

(***************************************************************************)
(* Views of the ledger in a store, and of a recorded call.                 *)
(***************************************************************************)
MaxValue == Pow(Base, NBytes) - 1

BalanceIn(st, a) == Value(get_balance(Begin(st), a))
AllowanceIn(st, o, sp) == Value(get_allowance(Begin(st), o, sp))
SupplyIn(st) == Value(get_total_supply(Begin(st)))
OwnerIn(st) == get_owner(Begin(st))
IsOwnerIn(st, c) == OwnerIn(st).some /\ OwnerIn(st).val = c

BalancesIn(st) == [a \in Addrs |-> BalanceIn(st, a)]
AllowancesIn(st) == [p \in Addrs \X Addrs |-> AllowanceIn(st, p[1], p[2])]
SumBalancesIn(st) ==
    BalanceIn(st, "A") + BalanceIn(st, "AA") + BalanceIn(st, "B") + BalanceIn(st, "")

\* every balance, every allowance, the total supply and the owner
LedgerIn(st) == <<BalancesIn(st), AllowancesIn(st), SupplyIn(st), OwnerIn(st)>>

\* the stored entries other than those under the keys ks are the same
SameExcept(st1, st2, ks) ==
    /\ DOMAIN st1 \ ks = DOMAIN st2 \ ks
    /\ \A key \in DOMAIN st1 \ ks : st1[key] = st2[key]

\* the arguments of a recorded call k, when its buffer holds n addresses and
\* then an amount of full length
Decodes(k, n) ==
    /\ Len(k.args) = n + 1
    /\ Len(k.args[n + 1].bytes) >= NBytes
Arg(k, i) == k.args[i].str
AmountOf(k) == Value(from_le_bytes(k.args[Len(k.args)].bytes))

(***************************************************************************)
(* C1  Conservation: on a freshly constructed ledger, after every call of  *)
(* any sequence of transfer, transferFrom, mint, burn, burnFrom,           *)
(* increaseAllowance, decreaseAllowance and setOwner calls, the total      *)
(* supply equals the sum of all balances.                                  *)
(***************************************************************************)
C1_Conservation == ledger = "fresh" => SupplyIn(store) = SumBalancesIn(store)

\* a delegated transfer has moved a positive amount to B on a fresh ledger
C1_Witness ==
    /\ ledger = "fresh" /\ last.op = "transferFrom" /\ last.ok
    /\ Arg(last, 2) = "B" /\ AmountOf(last) > 0
    /\ SupplyIn(store) > BalanceIn(store, "B")

(***************************************************************************)
(* C2  Whole-call atomicity: a call that meets one of the rejection        *)
(* conditions (self-transfer, insufficient balance, insufficient           *)
(* allowance, overflow, underflow, caller not owner) leaves every balance, *)
(* every allowance, the total supply and the owner as they were; so do     *)
(* burn and burnFrom when the balance is below the amount and the total    *)
(* supply is not.                                                          *)
(***************************************************************************)
C2_MustReject(st, k) ==
    LET c == k.caller
        m == AmountOf(k)
    IN  \/ /\ k.op = "transfer" /\ Decodes(k, 1)
           /\ \/ c = Arg(k, 1)
              \/ BalanceIn(st, c) < m
              \/ BalanceIn(st, Arg(k, 1)) + m > MaxValue
        \/ /\ k.op = "transferFrom" /\ Decodes(k, 2)
           /\ \/ Arg(k, 1) = Arg(k, 2)
              \/ AllowanceIn(st, Arg(k, 1), c) < m
              \/ BalanceIn(st, Arg(k, 1)) < m
              \/ BalanceIn(st, Arg(k, 2)) + m > MaxValue
        \/ /\ k.op = "mint"
           /\ \/ ~IsOwnerIn(st, c)
              \/ /\ Decodes(k, 1)
                 /\ \/ SupplyIn(st) + m > MaxValue
                    \/ BalanceIn(st, Arg(k, 1)) + m > MaxValue
        \/ /\ k.op = "burn" /\ Decodes(k, 0)
           /\ \/ BalanceIn(st, c) < m
              \/ SupplyIn(st) < m
        \/ /\ k.op = "burnFrom" /\ Decodes(k, 1)
           /\ \/ AllowanceIn(st, Arg(k, 1), c) < m
              \/ BalanceIn(st, Arg(k, 1)) < m
              \/ SupplyIn(st) < m
        \/ /\ k.op = "setOwner"
           /\ OwnerIn(st).some /\ OwnerIn(st).val # c

\* (an untouched store needs no entry-by-entry comparison)
C2_Atomicity ==
    [][C2_MustReject(store, last') =>
         (store' = store \/ LedgerIn(store') = LedgerIn(store))]_vars

\* a burn was rejected for the caller's balance after it had written the
\* decreased total supply
C2_Witness ==
    /\ ledger = "fresh" /\ last.op = "burn" /\ ~last.ok /\ last.w = 1
    /\ Decodes(last, 0)
    /\ BalanceIn(store, last.caller) < AmountOf(last)
    /\ AmountOf(last) <= SupplyIn(store)

(***************************************************************************)
(* C3  Mint is owner-only: a mint call whose caller is not the current     *)
(* owner is rejected and changes no balance and not the total supply; the  *)
(* total supply increases in a step only if that step is a construct call  *)
(* or a mint called by the current owner.                                  *)
(***************************************************************************)
C3_NonOwnerMintRejected ==
    (last'.op = "mint" /\ ~IsOwnerIn(store, last'.caller))
        => /\ ~last'.ok
           /\ BalancesIn(store') = BalancesIn(store)
           /\ SupplyIn(store') = SupplyIn(store)

C3_MintOwnerOnly ==
    [][/\ C3_NonOwnerMintRejected
       /\ SupplyIn(store') > SupplyIn(store)
            => /\ last'.ok
               /\ \/ last'.op = "mint" /\ IsOwnerIn(store, last'.caller)
                  \/ last'.op = "constructor"]_vars

\* C3 as claimed: the total supply increases only in a mint by the owner
C3_Original ==
    [][/\ C3_NonOwnerMintRejected
       /\ SupplyIn(store') > SupplyIn(store)
            => /\ last'.ok
               /\ last'.op = "mint" /\ IsOwnerIn(store, last'.caller)]_vars

\* a well-formed mint of a positive amount by an account that is not the
\* owner was rejected
C3_Witness ==
    /\ ledger = "fresh" /\ last.op = "mint" /\ ~last.ok
    /\ Decodes(last, 1) /\ AmountOf(last) > 0
    /\ OwnerIn(store).some /\ OwnerIn(store).val # last.caller

(***************************************************************************)
(* C4  A successful transfer(recipient, amount) by caller c decreases      *)
(* Balance[c] by exactly amount, increases Balance[recipient] by exactly   *)
(* amount, and leaves every other balance, every allowance, the total      *)
(* supply and the owner unchanged.                                         *)
(***************************************************************************)
C4_TransferEffect ==
    [][(last'.op = "transfer" /\ last'.ok) =>
         LET c == last'.caller
             to == Arg(last', 1)
             m == AmountOf(last')
         IN  /\ BalanceIn(store', c) = BalanceIn(store, c) - m
             /\ BalanceIn(store', to) = BalanceIn(store, to) + m
             /\ \A a \in Addrs \ {c, to} : BalanceIn(store', a) = BalanceIn(store, a)
             /\ AllowancesIn(store') = AllowancesIn(store)
             /\ SupplyIn(store') = SupplyIn(store)
             /\ OwnerIn(store') = OwnerIn(store)]_vars

\* a transfer of a positive amount to an account that held tokens already
C4_Witness ==
    /\ ledger = "fresh" /\ last.op = "transfer" /\ last.ok
    /\ AmountOf(last) > 0
    /\ BalanceIn(store, Arg(last, 1)) > AmountOf(last)

C6_TransferFromEffect ==
    [][(last'.op = "transferFrom" /\ last'.ok) =>
         LET sp == last'.caller
             o == Arg(last', 1)
             r == Arg(last', 2)
             m == AmountOf(last')
         IN  /\ AllowanceIn(store', o, sp) = AllowanceIn(store, o, sp) - m
             /\ BalanceIn(store', o) = BalanceIn(store, o) - m
             /\ BalanceIn(store', r) = BalanceIn(store, r) + m
             /\ SupplyIn(store') = SupplyIn(store)]_vars

\* a caller has moved a positive amount out of its own balance by
\* transferFrom, on an allowance it had granted itself
C6_Witness ==
    /\ ledger = "fresh" /\ last.op = "transferFrom" /\ last.ok
    /\ AmountOf(last) > 0
    /\ Arg(last, 1) = last.caller

C8_AllowanceBound ==
    \A p \in Addrs \X Addrs : AllowanceIn(store, p[1], p[2]) <= credit[p]

(***************************************************************************)
(* C9  Allowance[o, s] changes in a step only if that step is a successful *)
(* increaseAllowance or decreaseAllowance called by o naming spender s, or *)
(* a successful transferFrom or burnFrom called by s naming owner o, for   *)
(* addresses of any lengths.                                               *)
(***************************************************************************)
C9_AllowanceFrame ==
    [][\A p \in Addrs \X Addrs :
         AllowanceIn(store', p[1], p[2]) # AllowanceIn(store, p[1], p[2]) =>
            /\ last'.ok
            /\ \/ /\ last'.op \in {"increaseAllowance", "decreaseAllowance"}
                  /\ last'.caller = p[1] /\ Arg(last', 1) = p[2]
               \/ /\ last'.op \in {"transferFrom", "burnFrom"}
                  /\ last'.caller = p[2] /\ Arg(last', 1) = p[1]]_vars

(***************************************************************************)
(* C10  A successful mint(recipient, amount) by the owner increases the    *)
(* total supply by exactly amount and Balance[recipient] by exactly amount *)
(* and changes nothing else; mint is rejected when TotalSupply + amount    *)
(* exceeds the maximum representable value.                                *)
(***************************************************************************)
C10_MintEffect ==
    [][last'.op = "mint" =>
         /\ last'.ok =>
              LET r == Arg(last', 1)
                  m == AmountOf(last')
              IN  /\ SupplyIn(store') = SupplyIn(store) + m
                  /\ BalanceIn(store', r) = BalanceIn(store, r) + m
                  /\ SameExcept(store', store, {TOTAL_SUPPLY_KEY, balance_key(r)})
         /\ (Decodes(last', 1) /\ SupplyIn(store) + AmountOf(last') > MaxValue)
              => ~last'.ok]_vars

\* the owner's mint was rejected because the total supply would pass the
\* maximum
C10_Witness ==
    /\ ledger = "fresh" /\ last.op = "mint" /\ ~last.ok
    /\ Decodes(last, 1)
    /\ IsOwnerIn(store, last.caller)
    /\ SupplyIn(store) + AmountOf(last) > MaxValue

(***************************************************************************)
(* C11  burn(amount) by caller c succeeds exactly when Balance[c] >=       *)
(* amount (on an unconstructed or freshly constructed ledger), and then    *)
(* decreases the total supply and Balance[c] by exactly amount; a burn of  *)
(* the caller's whole balance leaves Balance[c] = 0, a burn of a positive  *)
(* amount by a caller whose balance is 0 is rejected, and a balance        *)
(* increases in a step only if its holder is the recipient of a successful *)
(* transfer, transferFrom or mint, or the caller of a construct.           *)
(***************************************************************************)
C11_Receives(a) ==
    /\ last'.ok
    /\ \/ last'.op \in {"transfer", "mint"} /\ Arg(last', 1) = a
       \/ last'.op = "transferFrom" /\ Arg(last', 2) = a
       \/ last'.op = "constructor" /\ last'.caller = a

C12_BurnFromEffect ==
    [][(last'.op = "burnFrom" /\ Decodes(last', 1)) =>
         LET sp == last'.caller
             o == Arg(last', 1)
             m == AmountOf(last')
             enough == AllowanceIn(store, o, sp) >= m /\ BalanceIn(store, o) >= m
         IN  /\ last'.ok => enough
             /\ (enough /\ ledger # "other") => last'.ok
             /\ last'.ok =>
                  /\ SupplyIn(store') = SupplyIn(store) - m
                  /\ BalanceIn(store', o) = BalanceIn(store, o) - m
                  /\ AllowanceIn(store', o, sp) = AllowanceIn(store, o, sp) - m
                  /\ \A a \in Addrs \ {o} : BalanceIn(store', a) = BalanceIn(store, a)
                  /\ \A p \in (Addrs \X Addrs) \ {<<o, sp>>} :
                       AllowanceIn(store', p[1], p[2]) = AllowanceIn(store, p[1], p[2])
                  /\ OwnerIn(store') = OwnerIn(store)]_vars

(***************************************************************************)
(* C13  increaseAllowance(spender, amount) by caller c sets                *)
(* Allowance[c, spender] to the old value plus amount when that sum is     *)
(* representable and to the maximum representable value otherwise; with    *)
(* well-formed arguments it is never rejected, and it changes no balance   *)
(* and not the total supply.                                               *)
(***************************************************************************)
C13_IncreaseAllowanceEffect ==
    [][(last'.op = "increaseAllowance" /\ Decodes(last', 1)) =>
         LET c == last'.caller
             sp == Arg(last', 1)
             m == AmountOf(last')
             sum == AllowanceIn(store, c, sp) + m
         IN  /\ last'.ok
             /\ AllowanceIn(store', c, sp) = IF sum <= MaxValue THEN sum ELSE MaxValue
             /\ BalancesIn(store') = BalancesIn(store)
             /\ SupplyIn(store') = SupplyIn(store)]_vars

\* a grant on top of a positive allowance passed the maximum and was clamped
C13_Witness ==
    /\ ledger = "fresh" /\ last.op = "increaseAllowance" /\ last.ok
    /\ AmountOf(last) > 0
    /\ credit[<<last.caller, Arg(last, 1)>>] > MaxValue
    /\ AllowanceIn(store, last.caller, Arg(last, 1)) = MaxValue

(***************************************************************************)
(* C14  increaseAllowance called with an empty spender address is rejected *)
(* and leaves every allowance unchanged.                                   *)
(***************************************************************************)
C14_EmptySpenderRejected ==
    [][(last'.op = "increaseAllowance" /\ Decodes(last', 1) /\ Arg(last', 1) = "") =>
         /\ ~last'.ok
         /\ AllowancesIn(store') = AllowancesIn(store)]_vars

(***************************************************************************)
(* C15  decreaseAllowance(spender, amount) by caller c sets                *)
(* Allowance[c, spender] to the old value minus amount when the old value  *)
(* is at least amount and to zero otherwise; with well-formed arguments it *)
(* is never rejected, and it changes no balance and not the total supply.  *)
(***************************************************************************)
C15_DecreaseAllowanceEffect ==
    [][(last'.op = "decreaseAllowance" /\ Decodes(last', 1)) =>
         LET c == last'.caller
             sp == Arg(last', 1)
             m == AmountOf(last')
             old == AllowanceIn(store, c, sp)
         IN  /\ last'.ok
             /\ AllowanceIn(store', c, sp) = IF old >= m THEN old - m ELSE 0
             /\ BalancesIn(store') = BalancesIn(store)
             /\ SupplyIn(store') = SupplyIn(store)]_vars

\* a decrease by more than the caller had granted was clamped to zero
C15_Witness ==
    /\ ledger = "fresh" /\ last.op = "decreaseAllowance" /\ last.ok
    /\ credit[<<last.caller, Arg(last, 1)>>] > 0
    /\ AmountOf(last) > credit[<<last.caller, Arg(last, 1)>>]
    /\ AllowanceIn(store, last.caller, Arg(last, 1)) = 0

(***************************************************************************)
(* C16  Ownership gate: when an owner is set, setOwner(newOwner) succeeds  *)
(* only if the caller is the current owner and is otherwise rejected with  *)
(* the owner unchanged; when no owner is set, setOwner succeeds for any    *)
(* caller; after a successful setOwner the owner is newOwner.  The owner   *)
(* changes in no other operation than construct and setOwner.              *)
(***************************************************************************)
C16_OwnershipGate ==
    [][/\ (last'.op = "setOwner" /\ Len(last'.args) = 1) =>
            LET c == last'.caller
                new_owner == Arg(last', 1)
                owner == OwnerIn(store)
            IN  /\ owner.some => /\ last'.ok => c = owner.val
                                 /\ c # owner.val =>
                                      ~last'.ok /\ OwnerIn(store') = owner
                /\ ~owner.some => last'.ok
                /\ last'.ok => OwnerIn(store') = [some |-> TRUE, val |-> new_owner]
       /\ OwnerIn(store') # OwnerIn(store) =>
            last'.ok /\ last'.op \in {"constructor", "setOwner"}]_vars

\* an account that is not the owner was rejected when naming itself owner
C16_Witness ==
    /\ ledger = "fresh" /\ last.op = "setOwner" /\ ~last.ok
    /\ Len(last.args) = 1 /\ Arg(last, 1) = last.caller
    /\ OwnerIn(store).some /\ OwnerIn(store).val # last.caller

Constructed(st) == NAME_KEY \in DOMAIN st

MetadataIn(st) ==
    [key \in {NAME_KEY, SYMBOL_KEY, DECIMALS_KEY} |->
        IF key \in DOMAIN st THEN <<st[key]>> ELSE <<>>]

C18_ConstructOnce ==
    [][(last'.op = "constructor" /\ Constructed(store)) =>
         /\ MetadataIn(store') = MetadataIn(store)
         /\ SupplyIn(store') = SupplyIn(store)
         /\ OwnerIn(store') = OwnerIn(store)
         /\ BalancesIn(store') = BalancesIn(store)]_vars

(***************************************************************************)
(* C19  A call whose argument buffer is malformed (a missing or            *)
(* undecodable argument, or an amount shorter than a wide integer) is      *)
(* rejected without modifying any stored value, for every entry point,     *)
(* construct included.                                                     *)
(***************************************************************************)
C19_Malformed(k) ==
    \/ k.op \in {"transfer", "increaseAllowance", "decreaseAllowance", "mint", "burnFrom"}
         /\ ~Decodes(k, 1)
    \/ k.op = "transferFrom" /\ ~Decodes(k, 2)
    \/ k.op = "burn" /\ ~Decodes(k, 0)
    \/ k.op = "setOwner" /\ Len(k.args) # 1
    \/ k.op = "constructor" /\ ~Decodes(k, 3)

C19_MalformedRejected ==
    [][C19_Malformed(last') => ~last'.ok /\ store' = store]_vars

(***************************************************************************)
(* C20  Every successful mutating operation (transfer, transferFrom,       *)
(* increaseAllowance, decreaseAllowance, mint, burn, burnFrom, setOwner)   *)
(* generates exactly one event record, a rejected operation generates      *)
(* none, and construct generates an ownership record that carries the      *)
(* deploying caller's address.                                             *)
(***************************************************************************)
C20_Events ==
    [][/\ (last'.ok /\ last'.op # "constructor") => Len(last'.ev) = 1
       /\ ~last'.ok => last'.ev = <<>>
       /\ (last'.ok /\ last'.op = "constructor") =>
            last'.ev = <<(CHANGE_OWNER_EVENT \o ":") \o last'.caller>>]_vars

\* a delegated burn of a positive amount has generated its one record
C20_Witness ==
    /\ ledger = "fresh" /\ last.op = "burnFrom" /\ last.ok
    /\ AmountOf(last) > 0
    /\ last.ev = <<BURN_EVENT>>

(***************************************************************************)
(* C21  The read-only operations (balanceOf, allowance, totalSupply, name, *)
(* symbol, decimals, ownerAddress, isOwner, version) never modify the      *)
(* store and never create an entry; balanceOf returns zero for an address  *)
(* with no balance entry and allowance returns zero for a pair with no     *)
(* allowance entry, and neither fails on well-formed arguments.            *)
(***************************************************************************)
C21_ReadOnly ==
    [][last'.op \in ReadOps =>
         /\ store' = store
         /\ last'.w = 0
         /\ (last'.op = "balanceOf" /\ Len(last'.args) = 1) =>
              /\ last'.ok
              /\ balance_key(Arg(last', 1)) \notin DOMAIN store =>
                   last'.ret = to_le_bytes(ZERO)
         /\ (last'.op = "allowance" /\ Len(last'.args) = 2) =>
              /\ last'.ok
              /\ allowance_key(Arg(last', 1), Arg(last', 2)) \notin DOMAIN store =>
                   last'.ret = to_le_bytes(ZERO)]_vars

\* on a constructed ledger, balanceOf has returned zero for an address that
\* has no balance entry, and no entry was created for it
C21_Witness ==
    /\ ledger = "fresh" /\ last.op = "balanceOf" /\ last.ok
    /\ Len(last.args) = 1
    /\ balance_key(Arg(last, 1)) \notin DOMAIN store
    /\ last.ret = to_le_bytes(ZERO)

(***************************************************************************)
(* C22  Token metadata is immutable after construction: no transfer,       *)
(* transferFrom, increaseAllowance, decreaseAllowance, mint, burn,         *)
(* burnFrom or setOwner call, successful or rejected, changes name,        *)
(* symbol or decimals.                                                     *)
(***************************************************************************)
C22_MetadataImmutable ==
    [][last'.op # "constructor" => MetadataIn(store') = MetadataIn(store)]_vars

\* a setOwner call has committed on a constructed ledger
C22_Witness ==
    /\ Constructed(store) /\ last.op = "setOwner" /\ last.ok /\ last.w > 0

(***************************************************************************)
(* C23  The total supply is unchanged by every transfer, transferFrom,     *)
(* increaseAllowance, decreaseAllowance and setOwner call; it changes only *)
(* in construct, a successful mint and a successful burn or burnFrom.      *)
(***************************************************************************)
SupplyEntryIn(st) ==
    IF TOTAL_SUPPLY_KEY \in DOMAIN st THEN <<st[TOTAL_SUPPLY_KEY]>> ELSE <<>>

C23_SupplyFrame ==
    [][SupplyEntryIn(store') # SupplyEntryIn(store) =>
         /\ last'.ok
         /\ last'.op \in {"constructor", "mint", "burn", "burnFrom"}]_vars

\* an increaseAllowance call has committed a nonzero allowance on a ledger
\* whose supply is not zero
C23_Witness ==
    /\ last.op = "increaseAllowance" /\ last.ok /\ last.w > 0
    /\ Decodes(last, 1) /\ AmountOf(last) > 0
    /\ SupplyIn(store) > 0 /\ SupplyIn(store) # AmountOf(last)

(***************************************************************************)
(* C24  In every reachable state every balance, every allowance and the    *)
(* total supply is a value in 0 .. 2^w - 1 for the integer width w: no     *)
(* operation commits a value produced by a wrapped-around subtraction or   *)
(* addition.  A wrapped addition gives less than its operand and a wrapped *)
(* subtraction more, so: every amount entry stored holds NBytes bytes,     *)
(* each in 0 .. Base - 1, and a committed call lowers no entry it adds to  *)
(* and raises no entry it subtracts from.                                  *)
(***************************************************************************)
AmountKeysIn(st) == DOMAIN st \ {NAME_KEY, SYMBOL_KEY, DECIMALS_KEY, OWNER_KEY}

AmountIn(st, key) == IF key \in DOMAIN st THEN Value(st[key]) ELSE 0

\* the call k adds to the entry under key (and subtracts from the others
\* it writes)
C24_Adds(k, key) ==
    CASE k.op \in {"mint", "increaseAllowance"} -> TRUE
      [] k.op = "transfer" -> key # balance_key(k.caller)
      [] k.op = "transferFrom" -> key = balance_key(Arg(k, 2))
      [] OTHER -> FALSE

C24_NoWrap ==
    [][\A key \in AmountKeysIn(store') :
         /\ store'[key] \in U256Bytes
         /\ (last'.ok /\ last'.op # "constructor") =>
              IF C24_Adds(last', key)
              THEN AmountIn(store', key) >= AmountIn(store, key)
              ELSE AmountIn(store', key) <= AmountIn(store, key)]_vars

\* the owner's mint of an amount that the supply cannot take without
\* exceeding the maximum has been rejected
C24_Witness ==
    /\ last.op = "mint" /\ ~last.ok /\ Decodes(last, 1)
    /\ IsOwnerIn(store, last.caller)
    /\ SupplyIn(store) + AmountOf(last) > MaxValue

(***************************************************************************)
(* C25  checked_add(a, b) on little-endian byte arrays returns the byte    *)
(* representation of a + b when a + b is at most the maximum representable *)
(* value and returns no value exactly when a + b exceeds it, for all a and *)
(* b.                                                                      *)
(***************************************************************************)
C25_CheckedAdd ==
    last.op = "checked_add" =>
        IF Value(last.a) + Value(last.b) <= MaxValue
        THEN /\ last.result.some
             /\ last.result.val \in U256Bytes
             /\ Value(last.result.val) = Value(last.a) + Value(last.b)
        ELSE ~last.result.some

\* two nonzero operands whose sum is exactly the maximum have been added
C25_Witness ==
    /\ last.op = "checked_add" /\ last.result.some
    /\ Value(last.a) > 0 /\ Value(last.b) > 0
    /\ Value(last.a) + Value(last.b) = MaxValue

(***************************************************************************)
(* C26  checked_sub(a, b) returns no value exactly when a < b and          *)
(* otherwise returns the byte representation of a - b, computed with       *)
(* borrow propagation from the least to the most significant byte, for all *)
(* a and b; the final borrow is zero whenever a >= b.                      *)
(***************************************************************************)
C26_CheckedSub ==
    last.op = "checked_sub" =>
        IF Value(last.a) < Value(last.b)
        THEN ~last.result.some
        ELSE /\ last.result.some
             /\ last.result.val \in U256Bytes
             /\ Value(last.result.val) = Value(last.a) - Value(last.b)
             /\ last.borrow = 0

\* a subtraction that borrows from the second byte has given a value
C26_Witness ==
    /\ last.op = "checked_sub" /\ last.result.some
    /\ last.a[1] < last.b[1]

(***************************************************************************)
(* C27  The comparison of two wide integers (most significant byte first,  *)
(* first unequal byte decides) is a total order that agrees with the       *)
(* numeric magnitude of the little-endian values: cmp(a, b) is Less, Equal *)
(* or Greater exactly when value(a) <, =, > value(b), and equality holds   *)
(* only for byte-identical representations.                                *)
(***************************************************************************)
C27_Cmp ==
    last.op = "cmp" =>
        /\ last.ab \in {"Less", "Equal", "Greater"}
        /\ last.ab = "Less" <=> Value(last.a) < Value(last.b)
        /\ last.ab = "Equal" <=> Value(last.a) = Value(last.b)
        /\ last.ab = "Greater" <=> Value(last.a) > Value(last.b)
        /\ last.ab = "Equal" <=> last.a = last.b
        /\ last.ab = "Less" <=> last.ba = "Greater"
        /\ (last.ab # "Greater" /\ last.bc # "Greater") => last.ac # "Greater"

\* a is smaller in the most significant byte and larger in the least
\* significant one, and compares Less
C27_Witness ==
    /\ last.op = "cmp" /\ last.ab = "Less"
    /\ last.a[NBytes] < last.b[NBytes] /\ last.a[1] > last.b[1]

(***************************************************************************)
(* C28  Add/subtract round trip: for all wide integers a and b for which   *)
(* checked_add(a, b) has a value, checked_sub(checked_add(a, b), b) has    *)
(* the value a.                                                            *)
(***************************************************************************)
C28_RoundTrip ==
    (last.op = "add_then_sub" /\ last.sum.some) => last.back = Some(last.a)

\* the sum carried into the second byte and the subtraction gave a back
C28_Witness ==
    /\ last.op = "add_then_sub" /\ last.sum.some /\ last.back.some
    /\ last.a[1] + last.b[1] >= Base

(***************************************************************************)
(* C29  Write-after-validate ordering: within every single call, every     *)
(* read and every check that can reject the call happens before the first  *)
(* write to the store, so that no rejected call has issued a write; this   *)
(* holds for mint, burn and burnFrom as for transfer and transferFrom.     *)
(***************************************************************************)
C29_WriteAfterValidate ==
    [][~last'.ok => last'.w = 0]_vars

C31_ByFormerOwnerRejected ==
    (last'.op \in {"mint", "setOwner"} /\ last'.caller = last.handover.o) =>
        ~last'.ok

C31_MintFits(k, st) ==
    /\ Decodes(k, 1)
    /\ SupplyIn(st) + AmountOf(k) <= MaxValue
    /\ BalanceIn(st, Arg(k, 1)) + AmountOf(k) <= MaxValue

C32_BalanceWithinSupply ==
    [][/\ (ledger' = "fresh" /\ store' # store) =>
            LET supply == SupplyIn(store')
            IN  \A a \in Addrs : BalanceIn(store', a) <= supply
       /\ (ledger = "fresh" /\ last'.op = "burn" /\ Decodes(last', 0)
             /\ BalanceIn(store, last'.caller) >= AmountOf(last')) =>
            /\ SupplyIn(store) >= AmountOf(last')
            /\ last'.ok
       /\ (ledger = "fresh" /\ last'.op = "burnFrom" /\ Decodes(last', 1)
             /\ BalanceIn(store, Arg(last', 1)) >= AmountOf(last')) =>
            /\ SupplyIn(store) >= AmountOf(last')
            /\ AllowanceIn(store, Arg(last', 1), last'.caller) >= AmountOf(last')
                 => last'.ok
       /\ (ledger = "fresh" /\ last'.op = "mint" /\ Decodes(last', 1)
             /\ IsOwnerIn(store, last'.caller)
             /\ SupplyIn(store) + AmountOf(last') <= MaxValue) =>
            /\ BalanceIn(store, Arg(last', 1)) + AmountOf(last') <= MaxValue
            /\ last'.ok]_vars

\* on a fresh ledger a mint has been committed that brought the total
\* supply to the maximum, to a recipient who held tokens before
C32_Witness ==
    /\ ledger = "fresh" /\ last.op = "mint" /\ last.ok /\ Decodes(last, 1)
    /\ AmountOf(last) > 0
    /\ SupplyIn(store) = MaxValue
    /\ BalanceIn(store, Arg(last, 1)) > AmountOf(last)

(***************************************************************************)
(* C33  In every state reachable from a freshly constructed ledger, the    *)
(* recipient-overflow rejection of transfer and transferFrom is            *)
(* unreachable: whenever sender and recipient differ and the sender's      *)
(* balance is at least amount, Balance[recipient] + amount is              *)
(* representable.  For every amount up to the sender's balance that is so  *)
(* when the two balances together do not exceed the maximum; and a         *)
(* rejected transfer or transferFrom has one of the other reasons.         *)
(***************************************************************************)
\* the keys under which a balance is stored (an address without one holds 0)
BalanceKeysIn(st) == {balance_key(a) : a \in Addrs} \cap DOMAIN st

C33_NoRecipientOverflow ==
    [][/\ (ledger' = "fresh" /\ store' # store) =>
            \A from \in BalanceKeysIn(store') :
                \A to \in BalanceKeysIn(store') \ {from} :
                    Value(store'[from]) + Value(store'[to]) <= MaxValue
       /\ (~last'.ok /\ ledger = "fresh" /\ last'.op = "transfer"
             /\ Decodes(last', 1)) =>
            \/ last'.caller = Arg(last', 1)
            \/ BalanceIn(store, last'.caller) < AmountOf(last')
       /\ (~last'.ok /\ ledger = "fresh" /\ last'.op = "transferFrom"
             /\ Decodes(last', 2)) =>
            \/ Arg(last', 1) = Arg(last', 2)
            \/ BalanceIn(store, Arg(last', 1)) < AmountOf(last')
            \/ AllowanceIn(store, Arg(last', 1), last'.caller) < AmountOf(last')]_vars

\* on a fresh ledger whose total supply is the maximum, a transfer has been
\* committed to a recipient who held tokens before
C33_Witness ==
    /\ ledger = "fresh" /\ last.op = "transfer" /\ last.ok /\ Decodes(last, 1)
    /\ AmountOf(last) > 0
    /\ SupplyIn(store) = MaxValue
    /\ BalanceIn(store, Arg(last, 1)) > AmountOf(last)

====
